---- MODULE Spec2Model ----
(***************************************************************************)
(* A model of pyec: prime-field residues, affine / Jacobian points, the    *)
(* short-Weierstrass group law with NAF scalar multiplication, and the     *)
(* ECDSA signer built on it.                                               *)
(*                                                                         *)
(* Every operation of the library is a pure function of its arguments, so *)
(* the state records one call: which operation ran (op), on what (args),   *)
(* on which object (ctx) and what it produced (out).  A Python exception   *)
(* is an outcome like any other: the record Err(exc, msg).                 *)
(***************************************************************************)
EXTENDS Integers, Sequences, FiniteSets, TLC

VARIABLES ctx, op, args, out

vars == <<ctx, op, args, out>>

(***************************************************************************)
(* Bounds of the model.                                                    *)
(***************************************************************************)
\* Jacobian inputs are drawn with Z in 1..MaxZ (results have any Z).
MaxZ == 2
\* scalar_mult is called with n in -MaxScalar..MaxScalar.
MaxScalar == 12
\* to_naf is called with n in -MaxN..MaxN.
MaxN == 64
\* Message digests are drawn from 0..MaxDigest.
MaxDigest == 3

MaxCoordinate == 14

\* Residue calls: moduli in -MaxModulus..MaxModulus, values in
\* -MaxValue..MaxValue, exponents in 0..MaxPower.
MaxModulus == 6

MaxValue == 7

MaxPower == 3

\* Field and curve constructors: the field parameter p in
\* -MaxNegativeP..MaxP.
MaxNegativeP == 3

MaxP == 25

Min(i, j) == IF i < j THEN i ELSE j

\* The element of a one-element set: The({F(x) : x \in {e}}) is F(e) with e
\* evaluated once.
The(S) == CHOOSE r \in S : TRUE

(***************************************************************************)
(* Outcomes.                                                               *)
(***************************************************************************)
Err(exc, msg) == [tag |-> "Err", exc |-> exc, msg |-> msg]

IsErr(v) == "exc" \in DOMAIN v

Ok(v) == [tag |-> "Ok", val |-> v]

NoneValue == [tag |-> "None"]

(***************************************************************************)
(* maths.py: Residue.  All residues below are built with a modulus m > 0.  *)
(* The binary operators first call _compare_moduli; every residue of one   *)
(* call is built from the same modulus (the curve's p, or the modulus of   *)
(* the points compared), so that check never raises here.                  *)
(***************************************************************************)
Residue(a, m) == [a |-> IF a < m /\ a >= 0 THEN a ELSE a % m, m |-> m]

ResAdd(x, y) == Residue(x.a + y.a, x.m)

ResSub(x, y) == Residue(x.a - y.a, x.m)

ResMul(x, y) == Residue(x.a * y.a, x.m)

\* Python's a ** n for n >= 0: 0 ** 0 is 1.
PyPow(a, n) == IF n = 0 THEN 1 ELSE a ^ n

ResPow(x, n) == Residue(PyPow(x.a, n), x.m)

ResNeg(x) == Residue(-x.a, x.m)

ResEq(x, y) == x.a = y.a

(***************************************************************************)
(* maths.py: extended_euclidean and modular_inverse.                       *)
(***************************************************************************)
RECURSIVE EuclidLoop(_, _, _, _, _, _)
EuclidLoop(r_old, r, s_old, s, t_old, t) ==
    IF r = 0 THEN <<r_old, s_old, t_old>>
    ELSE LET q == r_old \div r
         IN  EuclidLoop(r, r_old - (q * r), s, s_old - (q * s), t, t_old - (q * t))

\* Called with a, b not both zero (gcd(0, 0) raises ValueError).
extended_euclidean(a, b) ==
    IF a = 0 \/ b = 0
    THEN <<IF a # 0 THEN a ELSE b, IF b # 0 THEN 0 ELSE 1, IF a # 0 THEN 0 ELSE 1>>
    ELSE EuclidLoop(a, b, 1, 0, 0, 1)

\* modular_inverse without the test of the gcd.
modular_inverse_unchecked(a, m) == Ok(extended_euclidean(a, m)[2] % m)

modular_inverse(a, m) ==
    IF extended_euclidean(a, m)[1] # 1
    THEN Err("ValueError", "no multiplicative inverse")
    ELSE Ok(extended_euclidean(a, m)[2] % m)

\* Residue.__truediv__: self * Residue(modular_inverse(other.a, self.m), self.m)
MulByInverse(x, inv) ==
    IF IsErr(inv) THEN inv ELSE ResMul(x, Residue(inv.val, x.m))

ResDiv(x, y) == MulByInverse(x, modular_inverse(y.a, x.m))

(***************************************************************************)
(* maths.py: to_naf.  The list is built by insert(0, .), so the digit      *)
(* produced first ends up last.                                            *)
(***************************************************************************)
\* The loop with append in place of insert(0, .): digits come out reversed.
RECURSIVE NafLoop_append(_, _)
NafLoop_append(n, naf) ==
    IF n = 0 THEN naf
    ELSE IF n % 2 # 0
         THEN LET z == 2 - (n % 4)
              IN  NafLoop_append((n - z) \div 2, naf \o <<z>>)
         ELSE NafLoop_append(n \div 2, naf \o <<0>>)

RECURSIVE NafLoop(_, _)
NafLoop(n, naf) ==
    IF n = 0 THEN naf
    ELSE IF n % 2 # 0
         THEN LET z == 2 - (n % 4)
              IN  NafLoop((n - z) \div 2, <<z>> \o naf)
         ELSE NafLoop(n \div 2, <<0>> \o naf)

to_naf(n) == IF n = 0 THEN <<0>> ELSE NafLoop(n, <<>>)

(***************************************************************************)
(* point.py: AffinePoint, JacobianPoint, Infinity.                         *)
(***************************************************************************)
AffinePoint(x, y) == [tag |-> "A", x |-> x, y |-> y]

JacobianPoint(x, y, z) == [tag |-> "J", x |-> x, y |-> y, z |-> z]

Infinity == [tag |-> "Inf"]

IsPoint(P) == P.tag \in {"A", "J", "Inf"}

negate(P) ==
    IF P.tag = "A" THEN AffinePoint(P.x, ResNeg(P.y))
    ELSE IF P.tag = "J" THEN JacobianPoint(P.x, ResNeg(P.y), P.z)
    ELSE P

to_jacobian(P) ==
    IF P.tag = "A" THEN JacobianPoint(P.x, P.y, Residue(1, P.x.m)) ELSE P

\* JacobianPoint.to_affine divides by z and so raises when z has no inverse.
ScaleBy(P, z_inv) ==
    IF IsErr(z_inv) THEN z_inv
    ELSE AffinePoint(ResMul(P.x, ResPow(z_inv, 2)), ResMul(P.y, ResPow(z_inv, 3)))

to_affine(P) ==
    IF P.tag = "J" THEN ScaleBy(P, ResDiv(Residue(1, P.x.m), P.z)) ELSE P

\* __getitem__(2) exists on JacobianPoint only; AffinePoint raises IndexError.
HasZ(P) == P.tag = "J"

IndexError == Err("IndexError", "Index out of range. Affine points have two coordinates.")

PyBool(b) == IF b THEN "True" ELSE "False"

\* AffinePoint.__eq__(self, other): "True", "False" or the exception raised.
AffineEqAffine(self, o) ==
    IF IsErr(o) THEN o.exc
    ELSE PyBool(ResEq(self.x, o.x) /\ ResEq(self.y, o.y))

AffineEq(self, other) ==
    IF other.tag = "A" THEN AffineEqAffine(self, other)
    ELSE IF other.tag = "J" THEN AffineEqAffine(self, to_affine(other))
    ELSE IF other.tag = "Inf" THEN "False"
    ELSE "TypeError"

\* JacobianPoint.__eq__(self, other): coordinate by coordinate.
JacobianEq(self, other) ==
    IF other.tag = "J"
    THEN PyBool(ResEq(self.x, other.x) /\ ResEq(self.y, other.y)
                /\ ResEq(self.z, other.z))
    ELSE IF other.tag = "A"
    THEN LET o == to_jacobian(other)
         IN  PyBool(ResEq(self.x, o.x) /\ ResEq(self.y, o.y) /\ ResEq(self.z, o.z))
    ELSE IF other.tag = "Inf" THEN "False"
    ELSE "TypeError"

\* Infinity.__eq__: isinstance(other, Infinity).
InfinityEq(self, other) == PyBool(other.tag = "Inf")

\* P == Q as Python evaluates it: type(P).__eq__(P, Q).
PyEq(P, Q) ==
    IF P.tag = "A" THEN AffineEq(P, Q)
    ELSE IF P.tag = "J" THEN JacobianEq(P, Q)
    ELSE InfinityEq(P, Q)

(***************************************************************************)
(* curve.py: Curve.__init__ and ShortWCurve.                               *)
(***************************************************************************)
\* ShortWCurve._validate_params: the discriminant 4a^3 + 27b^2 is non-zero.
ValidShortW(a, b, p) ==
    ((4 * (Residue(a, p).a ^ 3)) + (27 * (Residue(b, p).a ^ 2))) % p # 0

ShortWCurve(a, b, p) == [a |-> Residue(a, p), b |-> Residue(b, p), p |-> p]

\* ShortWCurve.__contains__: "True", "False" or the exception raised.
contains(curve, P) ==
    IF P.tag = "Inf" THEN "True"
    ELSE LET Q == to_affine(P)
         IN  IF IsErr(Q) THEN Q.exc
             ELSE PyBool(ResEq(ResPow(Q.y, 2),
                               ResAdd(ResAdd(ResPow(Q.x, 3), ResMul(curve.a, Q.x)),
                                      curve.b)))

\* _double with z = 2 * Y in place of 2 * Y * Z.
_double_noz(curve, P) ==
    IF P.tag = "Inf" THEN P
    ELSE IF P.y.a = 0 THEN Infinity
    ELSE IF ~HasZ(P) THEN IndexError
    ELSE LET p  == curve.p
             Y2 == ResPow(P.y, 2)
             Z2 == ResPow(P.z, 2)
             S  == ResMul(ResMul(Residue(4, p), P.x), Y2)
             M  == IF curve.a.a = (-3) % p
                   THEN ResMul(ResMul(Residue(3, p), ResAdd(P.x, Z2)), ResSub(P.x, Z2))
                   ELSE ResAdd(ResMul(Residue(3, p), ResPow(P.x, 2)),
                               ResMul(curve.a, ResPow(Z2, 2)))
             T  == ResSub(ResPow(M, 2), ResMul(Residue(2, p), S))
             y  == ResSub(ResMul(M, ResSub(S, T)),
                          ResMul(Residue(8, p), ResPow(Y2, 2)))
         IN  JacobianPoint(T, y, ResMul(Residue(2, p), P.y))

\* ShortWCurve._double
_double(curve, P) ==
    IF P.tag = "Inf" THEN P
    ELSE IF P.y.a = 0 THEN Infinity
    ELSE IF ~HasZ(P) THEN IndexError
    ELSE LET p  == curve.p
             Y2 == ResPow(P.y, 2)
             Z2 == ResPow(P.z, 2)
             S  == ResMul(ResMul(Residue(4, p), P.x), Y2)
             M  == IF curve.a.a = (-3) % p
                   THEN ResMul(ResMul(Residue(3, p), ResAdd(P.x, Z2)), ResSub(P.x, Z2))
                   ELSE ResAdd(ResMul(Residue(3, p), ResPow(P.x, 2)),
                               ResMul(curve.a, ResPow(Z2, 2)))
             T  == ResSub(ResPow(M, 2), ResMul(Residue(2, p), S))
             x  == T
             y  == ResSub(ResMul(M, ResSub(S, T)),
                          ResMul(Residue(8, p), ResPow(Y2, 2)))
             z  == ResMul(ResMul(Residue(2, p), P.y), P.z)
         IN  JacobianPoint(x, y, z)

\* The general case of ShortWCurve.add (lines 261-278): P, Q are points,
\* neither is Infinity, and neither P.negate() == Q nor P == Q held.
AddGeneral(curve, P, Q, to_aff) ==
    IF ~HasZ(P) \/ ~HasZ(Q) THEN IndexError
    ELSE LET p == curve.p
             U == ResMul(P.x, ResPow(Q.z, 2))
             V == ResMul(Q.x, ResPow(P.z, 2))
             S == ResMul(P.y, ResPow(Q.z, 3))
             T == ResMul(Q.y, ResPow(P.z, 3))
         IN  IF ResEq(U, V)
             THEN IF ResEq(S, T) THEN _double(curve, P) ELSE Infinity
             ELSE LET H   == ResSub(V, U)
                      R   == ResSub(T, S)
                      H2  == ResPow(H, 2)
                      H3  == ResMul(H2, H)
                      UH2 == ResMul(U, H2)
                      x   == ResSub(ResSub(ResPow(R, 2), H3),
                                    ResMul(Residue(2, p), UH2))
                      y   == ResSub(ResMul(R, ResSub(UH2, x)), ResMul(S, H3))
                      z   == ResMul(ResMul(H, P.z), Q.z)
                      res == JacobianPoint(x, y, z)
                  IN  IF ~to_aff THEN res ELSE to_affine(res)

\* Lines 257-260 of ShortWCurve.add: same is the outcome of P == Q, which is
\* evaluated after P.negate() == Q returned False.
AddDistinct(curve, P, Q, to_aff, same) ==
    IF same \notin {"True", "False"} THEN Err(same, "")
    ELSE IF same = "True" THEN _double(curve, P)
    ELSE AddGeneral(curve, P, Q, to_aff)

\* Lines 255-278 of ShortWCurve.add, for P and Q other than Infinity: neg is
\* the outcome of P.negate() == Q.
AddFinite(curve, P, Q, to_aff, neg) ==
    IF neg \notin {"True", "False"} THEN Err(neg, "")
    ELSE IF neg = "True" THEN Infinity
    ELSE AddDistinct(curve, P, Q, to_aff, PyEq(P, Q))

\* ShortWCurve.add with the two identity branches returning the wrong operand.
add_identity_swapped(curve, P, Q, to_aff) ==
    IF P.tag = "Inf" THEN (IF ~to_aff THEN P ELSE to_affine(P))
    ELSE IF Q.tag = "Inf" THEN (IF ~to_aff THEN Q ELSE to_affine(Q))
    ELSE AddFinite(curve, P, Q, to_aff, PyEq(negate(P), Q))

\* ShortWCurve.add
add(curve, P, Q, to_aff) ==
    IF P.tag = "Inf" THEN (IF ~to_aff THEN Q ELSE to_affine(Q))
    ELSE IF Q.tag = "Inf" THEN (IF ~to_aff THEN P ELSE to_affine(P))
    ELSE AddFinite(curve, P, Q, to_aff, PyEq(negate(P), Q))

NegativeScalar == Err("ValueError", "Power must be non-negative.")

\* The step with the digit -1 adding Q instead of Q.negate().
ScalarStep_nonegate(curve, bit, Q, R) ==
    IF bit = 1 THEN add(curve, R, Q, FALSE)
    ELSE IF bit = -1 THEN add(curve, R, Q, FALSE)
    ELSE R

\* One digit of the NAF applied to the accumulator R (lines 177-180).
ScalarStep(curve, bit, Q, R) ==
    IF bit = 1 THEN add(curve, R, Q, FALSE)
    ELSE IF bit = -1 THEN add(curve, R, negate(Q), FALSE)
    ELSE R

\* The loop of Curve.scalar_mult over reversed(bits): bits[i] is consumed
\* for i = Len(bits) down to 1, each round updating R and then doubling Q;
\* an exception raised by either add ends the call.
RECURSIVE ScalarLoop(_, _, _, _, _)
ScalarLoop(curve, bits, i, Q, R) ==
    IF IsErr(R) THEN R
    ELSE IF IsErr(Q) THEN Q
    ELSE IF i = 0 THEN R
    ELSE ScalarLoop(curve, bits, i - 1,
                    add(curve, Q, Q, FALSE), ScalarStep(curve, bits[i], Q, R))

\* Line 183 of Curve.scalar_mult: R.to_affine() if to_affine else R.
Converted(R, to_aff) ==
    IF IsErr(R) THEN R
    ELSE IF ~to_aff THEN R ELSE to_affine(R)

\* scalar_mult with the guard n <= 0 in place of n < 0.
scalar_mult_le(curve, P, n, to_aff) ==
    IF n <= 0 THEN NegativeScalar
    ELSE IF P.tag = "Inf" THEN P
    ELSE LET bits == to_naf(n)
         IN  Converted(ScalarLoop(curve, bits, Len(bits), to_jacobian(P), Infinity),
                       to_aff)

\* Curve.scalar_mult
scalar_mult(curve, P, n, to_aff) ==
    IF n < 0 THEN NegativeScalar
    ELSE IF P.tag = "Inf" THEN P
    ELSE LET bits == to_naf(n)
         IN  Converted(ScalarLoop(curve, bits, Len(bits), to_jacobian(P), Infinity),
                       to_aff)

PointNotOnCurve == Err("ValueError", "The given point is not on the curve.")

\* create_point without the membership test.
create_point_unchecked(curve, x, y) ==
    to_jacobian(AffinePoint(Residue(x, curve.p), Residue(y, curve.p)))

\* Curve.create_point
create_point(curve, x, y) ==
    LET point == AffinePoint(Residue(x, curve.p), Residue(y, curve.p))
    IN  IF contains(curve, point) # "True" THEN PointNotOnCurve
        ELSE to_jacobian(point)

(***************************************************************************)
(* The curves and the points the operations are applied to.                *)
(***************************************************************************)
\* <<a, b, p>>: the test suite's curve, one with a = -3 (mod p) and prime
\* order, and one with a point of order two (y = 0).
CurveParams == {<<3, 8, 13>>, <<4, 6, 7>>, <<4, 1, 5>>}

Curves == {ShortWCurve(t[1], t[2], t[3]) : t \in {u \in CurveParams : ValidShortW(u[1], u[2], u[3])}}

AffineOver(p) ==
    {AffinePoint(Residue(x, p), Residue(y, p)) : x \in 0..(p - 1), y \in 0..(p - 1)}

JacobianOver(p, zs) ==
    {JacobianPoint(Residue(x, p), Residue(y, p), Residue(z, p)) :
        x \in 0..(p - 1), y \in 0..(p - 1), z \in zs}

\* The curve elements: Infinity and every point, in either representation,
\* that ShortWCurve.__contains__ accepts.
ElementsOf ==
    [c \in Curves |->
        {Infinity} \cup
        {P \in AffineOver(c.p) \cup JacobianOver(c.p, 1..Min(MaxZ, c.p - 1)) :
            contains(c, P) = "True"}]

\* Points that are not on the curve: affine ones and Jacobian ones with Z = 0.
OffCurveOf ==
    [c \in Curves |->
        {P \in AffineOver(c.p) \cup JacobianOver(c.p, {0}) :
            contains(c, P) # "True" /\ P.x.a <= 1}]

Scalars == (-MaxScalar)..MaxScalar

\* The ints handed to create_point: negative ones and ones above p too.
Coordinates == (-MaxCoordinate)..MaxCoordinate

(***************************************************************************)
(* Curve arithmetic: one call of add or scalar_mult on a curve.            *)
(***************************************************************************)
Init ==
    /\ ctx \in Curves
    /\ op = "init"
    /\ args = <<>>
    /\ out = NoneValue

Add ==
    /\ op = "init"
    /\ \E P \in ElementsOf[ctx], Q \in ElementsOf[ctx], to_aff \in BOOLEAN :
          /\ op' = "add"
          /\ args' = [P |-> P, Q |-> Q, to_affine |-> to_aff]
          /\ out' = add(ctx, P, Q, to_aff)
    /\ UNCHANGED ctx

ScalarMult ==
    /\ op = "init"
    /\ \E P \in ElementsOf[ctx] \cup OffCurveOf[ctx], n \in Scalars, to_aff \in BOOLEAN :
          /\ op' = "scalar_mult"
          /\ args' = [P |-> P, n |-> n, to_affine |-> to_aff]
          /\ out' = scalar_mult(ctx, P, n, to_aff)
    /\ UNCHANGED ctx

CreatePoint ==
    /\ op = "init"
    /\ \E x \in Coordinates, y \in Coordinates :
          /\ op' = "create_point"
          /\ args' = [x |-> x, y |-> y]
          /\ out' = create_point(ctx, x, y)
    /\ UNCHANGED ctx

Next == Add \/ ScalarMult \/ CreatePoint

Spec == Init /\ [][Next]_vars

(***************************************************************************)
(* Properties of the curve arithmetic.                                     *)
(***************************************************************************)
\* A and B are the same curve point: both Infinity, or both points with the
\* same affine projection.
SamePoint(A, B) ==
    /\ IsPoint(A)
    /\ IsPoint(B)
    /\ IF A.tag = "Inf" \/ B.tag = "Inf" THEN A.tag = B.tag
       ELSE /\ ~IsErr(to_affine(A))
            /\ ~IsErr(to_affine(B))
            /\ to_affine(A) = to_affine(B)

OnCurve(P) == P \in ElementsOf[ctx]

\* C3: scalar_mult(P, m + n) is the same curve point as
\* add(scalar_mult(P, m), scalar_mult(P, n)), for every on-curve P and all
\* m, n >= 0; the state holds scalar_mult(P, k) and every split k = m + n
\* is compared with it.
ScalarMultAdditive ==
    (op = "scalar_mult" /\ OnCurve(args.P) /\ args.n >= 0) =>
        \A m \in 0..args.n :
            SamePoint(out,
                      add(ctx, scalar_mult(ctx, args.P, m, FALSE),
                               scalar_mult(ctx, args.P, args.n - m, FALSE), FALSE))

\* The scalar wraps past the order of the point: k*P is Infinity for a
\* k > 1 and a point again for a larger one, with both parts non-trivial.
ScalarMultAdditiveWitness ==
    /\ op = "scalar_mult"
    /\ OnCurve(args.P)
    /\ args.P.tag # "Inf"
    /\ args.n >= 5
    /\ out.tag = "J"
    /\ out.z.a # 1
    /\ \E m \in 2..(args.n - 2) : scalar_mult(ctx, args.P, m, FALSE).tag = "Inf"

\* C4: add(add(P, Q), R) is the same curve point as add(P, add(Q, R)) for
\* all on-curve P, Q, R; the state holds add(P, Q).
AddAssociative ==
    (op = "add" /\ ~args.to_affine) =>
        \A R \in ElementsOf[ctx] :
            SamePoint(add(ctx, out, R, FALSE),
                      add(ctx, args.P, add(ctx, args.Q, R, FALSE), FALSE))

\* add(add(P, Q), R) is the same curve point as add(P, add(Q, R)) when
\* P, Q and R are JacobianPoints or Infinity.
AddAssociativeJacobian ==
    (op = "add" /\ ~args.to_affine /\ args.P.tag # "A" /\ args.Q.tag # "A") =>
        \A R \in {E \in ElementsOf[ctx] : E.tag # "A"} :
            SamePoint(add(ctx, out, R, FALSE),
                      add(ctx, args.P, add(ctx, args.Q, R, FALSE), FALSE))

\* C5: add(P, Q) == add(Q, P) for all on-curve P, Q, with == the points'
\* own comparison; stated for the operands create_point and add produce
\* (JacobianPoint or Infinity).
AddCommutative ==
    (op = "add" /\ ~args.to_affine /\ args.P.tag # "A" /\ args.Q.tag # "A") =>
        PyEq(out, add(ctx, args.Q, args.P, FALSE)) = "True"

\* C6: add(P, Infinity) == P, add(Infinity, P) == P and add(P, P.negate())
\* is Infinity, for every on-curve P, Infinity included.
AddIdentityInverse ==
    (op = "add") =>
        /\ (args.Q.tag = "Inf") => (PyEq(out, args.P) = "True")
        /\ (args.P.tag = "Inf") => (PyEq(out, args.Q) = "True")
        /\ (args.Q = negate(args.P)) => (out = Infinity)

\* Infinity was added on the left of a point with Z # 1.
AddIdentityInverseWitness ==
    /\ op = "add"
    /\ args.P.tag = "Inf"
    /\ args.Q.tag = "J"
    /\ args.Q.z.a # 1
    /\ out = args.Q

\* C7: scalar_mult(P, n) raises the negative-scalar ValueError for every
\* n < 0, whatever P is; it returns Infinity when P is Infinity or n = 0;
\* and scalar_mult(P, 1) is P (in the representation asked for).
ScalarMultEdgeCases ==
    (op = "scalar_mult") =>
        /\ (args.n < 0) => (out = NegativeScalar)
        /\ (args.n >= 0 /\ (args.P.tag = "Inf" \/ args.n = 0)) => (out = Infinity)
        /\ (args.n = 1 /\ OnCurve(args.P)) =>
              (out = IF args.to_affine THEN to_affine(args.P) ELSE to_jacobian(args.P))

\* A negative scalar was refused for a point that is not on the curve.
ScalarMultEdgeCasesWitness ==
    /\ op = "scalar_mult"
    /\ args.n < 0
    /\ args.P \in OffCurveOf[ctx]
    /\ out = NegativeScalar

\* C14: add takes its operands in either representation: for on-curve P
\* and Q of which at least one is an AffinePoint, add(P, Q) raises nothing
\* and is the same curve point as add(P.to_jacobian(), Q.to_jacobian()).
AddAcceptsAffine ==
    (op = "add" /\ (args.P.tag = "A" \/ args.Q.tag = "A")) =>
        /\ ~IsErr(out)
        /\ SamePoint(out, add(ctx, to_jacobian(args.P), to_jacobian(args.Q),
                              args.to_affine))

\* C15: add(P, Q, to_affine=True) returns an AffinePoint or Infinity and
\* add(P, Q) with to_affine=False a JacobianPoint or Infinity, in every
\* branch.
AddReturnsRequestedForm ==
    (op = "add") =>
        out.tag \in (IF args.to_affine THEN {"A", "Inf"} ELSE {"J", "Inf"})

\* C16: create_point(x, y) returns the Jacobian point (x mod p, y mod p, 1)
\* exactly when y^2 = x^3 + a*x + b (mod p), and raises the
\* point-not-on-curve error for every other pair of ints.
CreatePointChecksEquation ==
    (op = "create_point") =>
        IF ((args.y * args.y)
            - ((args.x * args.x * args.x) + (ctx.a.a * args.x) + ctx.b.a)) % ctx.p = 0
        THEN out = [tag |-> "J",
                    x |-> [a |-> args.x % ctx.p, m |-> ctx.p],
                    y |-> [a |-> args.y % ctx.p, m |-> ctx.p],
                    z |-> [a |-> 1, m |-> ctx.p]]
        ELSE out = PointNotOnCurve

\* A point was created from a negative x and a y above p.
CreatePointChecksEquationWitness ==
    /\ op = "create_point"
    /\ args.x < 0
    /\ args.y >= ctx.p
    /\ out.tag = "J"
    /\ out.y.a # 0

\* Infinity, or a JacobianPoint with Z # 0 that projects to a point of the
\* curve.
OnCurveJacobian(curve, v) ==
    \/ v = Infinity
    \/ /\ ~IsErr(v)
       /\ v.tag = "J"
       /\ v.z.a # 0
       /\ ~IsErr(to_affine(v))
       /\ contains(curve, v) = "True"

\* Every Q and R that the loop of scalar_mult holds, from the first round
\* to the last.
RECURSIVE ScalarValues(_, _, _, _, _)
ScalarValues(curve, bits, i, Q, R) ==
    IF i = 0 \/ IsErr(Q) \/ IsErr(R) THEN {Q, R}
    ELSE {Q, R} \cup ScalarValues(curve, bits, i - 1,
                                  add(curve, Q, Q, FALSE),
                                  ScalarStep(curve, bits[i], Q, R))

JacobianElement(P) == P \in ElementsOf[ctx] /\ P.tag # "A"

\* C20: from on-curve Jacobian points with Z # 0, every value of add and
\* _double and every intermediate Q and R of scalar_mult is Infinity or a
\* JacobianPoint with Z # 0 whose affine projection is on the curve.
ResultsStayOnCurve ==
    /\ (op = "add" /\ ~args.to_affine
            /\ JacobianElement(args.P) /\ JacobianElement(args.Q)) =>
           /\ OnCurveJacobian(ctx, out)
           /\ OnCurveJacobian(ctx, _double(ctx, args.P))
    /\ (op = "scalar_mult" /\ args.n >= 0 /\ JacobianElement(args.P)
            /\ args.P.tag = "J") =>
           \A v \in ScalarValues(ctx, to_naf(args.n), Len(to_naf(args.n)),
                                  args.P, Infinity) :
               OnCurveJacobian(ctx, v)

\* A multiple of a point with Z # 1 was computed through at least three
\* rounds, one of them with the digit -1, and is a point with Z # 1.
ResultsStayOnCurveWitness ==
    /\ op = "scalar_mult"
    /\ ~args.to_affine
    /\ JacobianElement(args.P)
    /\ args.P.tag = "J"
    /\ args.P.z.a # 1
    /\ args.n = 7
    /\ out.tag = "J"
    /\ out.z.a # 1

(***************************************************************************)
(* Integer helpers: one call of to_naf.                                    *)
(***************************************************************************)
MathsInit ==
    /\ ctx = NoneValue
    /\ op = "init"
    /\ args = <<>>
    /\ out = NoneValue

ToNaf ==
    /\ op = "init"
    /\ \E n \in (-MaxN)..MaxN :
          /\ op' = "to_naf"
          /\ args' = [n |-> n]
          /\ out' = to_naf(n)
    /\ UNCHANGED ctx

MathsNext == ToNaf

MathsSpec == MathsInit /\ [][MathsNext]_vars

\* The value of a digit list read most-significant digit first.
RECURSIVE NafValue(_)
NafValue(d) ==
    IF Len(d) = 0 THEN 0
    ELSE 2 * NafValue(SubSeq(d, 1, Len(d) - 1)) + d[Len(d)]

\* C8: for every integer n, negative ones included, to_naf(n) is a list of
\* digits in {-1, 0, 1}, most significant first, whose signed binary value
\* is n and in which no two adjacent digits are both non-zero.
ToNafCorrect ==
    (op = "to_naf") =>
        /\ Len(out) >= 1
        /\ \A i \in 1..Len(out) : out[i] \in {-1, 0, 1}
        /\ NafValue(out) = args.n
        /\ \A i \in 1..(Len(out) - 1) : out[i] = 0 \/ out[i + 1] = 0

\* A negative n whose form has both a 1 and a -1 digit.
ToNafCorrectWitness ==
    /\ op = "to_naf"
    /\ args.n < 0
    /\ \E i, j \in 1..Len(out) : out[i] = 1 /\ out[j] = -1

(***************************************************************************)
(* point.py: __hash__.  The points hash a tuple of their coordinates, a    *)
(* Residue hashes the tuple (a, m), and hash() of a tuple is CPython's     *)
(* tuplehash (xxHash lanes over 64-bit words).  A 64-bit word is the tuple *)
(* of its eight bytes, least significant first.                            *)
(***************************************************************************)
\* 11400714785074694791, 14029467366897019727, 2870177450012600261
XXPRIME_1 == <<135, 202, 235, 133, 177, 121, 55, 158>>

XXPRIME_2 == <<79, 235, 212, 39, 61, 174, 178, 194>>

XXPRIME_5 == <<197, 103, 86, 22, 47, 235, 212, 39>>

\* XXPRIME_5 ^ 3527539
LengthMangle == <<182, 180, 99, 22, 47, 235, 212, 39>>

\* The value tuplehash returns in place of -1: 1546275796.
MinusOneReplacement == <<212, 75, 42, 92, 0, 0, 0, 0>>

U64Max == <<255, 255, 255, 255, 255, 255, 255, 255>>

\* A non-negative int below 2^31 as a word; hash(n) of such an int is n.
U64(n) ==
    <<n % 256, (n \div 256) % 256, (n \div 65536) % 256, (n \div 16777216) % 256,
      0, 0, 0, 0>>

RECURSIVE CarryFrom(_, _, _)
CarryFrom(c, k, carry) ==
    IF k > 8 THEN <<>>
    ELSE <<(c[k] + carry) % 256>> \o CarryFrom(c, k + 1, (c[k] + carry) \div 256)

\* a + b modulo 2^64
U64Add(a0, b0) ==
    The({CarryFrom(<<a[1] + b[1], a[2] + b[2], a[3] + b[3], a[4] + b[4],
                     a[5] + b[5], a[6] + b[6], a[7] + b[7], a[8] + b[8]>>, 1, 0) :
            a \in {a0}, b \in {b0}})

RECURSIVE Column(_, _, _, _)
Column(a, b, k, i) ==
    IF i > k THEN 0 ELSE a[i] * b[k + 1 - i] + Column(a, b, k, i + 1)

\* a * b modulo 2^64
U64Mul(a0, b0) ==
    The({CarryFrom(<<Column(a, b, 1, 1), Column(a, b, 2, 1), Column(a, b, 3, 1),
                     Column(a, b, 4, 1), Column(a, b, 5, 1), Column(a, b, 6, 1),
                     Column(a, b, 7, 1), Column(a, b, 8, 1)>>, 1, 0) :
            a \in {a0}, b \in {b0}})

\* (x << 31) | (x >> 33): the two halves swapped, then one bit to the right.
XXROTATE(a0) ==
    The({The({<<r[1] \div 2 + 128 * (r[2] % 2), r[2] \div 2 + 128 * (r[3] % 2),
                r[3] \div 2 + 128 * (r[4] % 2), r[4] \div 2 + 128 * (r[5] % 2),
                r[5] \div 2 + 128 * (r[6] % 2), r[6] \div 2 + 128 * (r[7] % 2),
                r[7] \div 2 + 128 * (r[8] % 2), r[8] \div 2 + 128 * (r[1] % 2)>> :
                 r \in {<<a[5], a[6], a[7], a[8], a[1], a[2], a[3], a[4]>>}}) :
            a \in {a0}})

RECURSIVE XorBits(_, _, _)
XorBits(x, y, bits) ==
    IF bits = 0 THEN 0
    ELSE ((x + y) % 2) + 2 * XorBits(x \div 2, y \div 2, bits - 1)

\* len ^ (XXPRIME_5 ^ 3527539) for a tuple length below 256.
MangledLength(len) ==
    <<XorBits(len, LengthMangle[1], 8)>> \o SubSeq(LengthMangle, 2, 8)

RECURSIVE TupleLanes(_, _, _)
TupleLanes(lanes, i, acc0) ==
    IF i > Len(lanes) THEN acc0
    ELSE The({TupleLanes(lanes, i + 1, acc) :
                 acc \in {U64Mul(XXROTATE(U64Add(acc0, U64Mul(lanes[i], XXPRIME_2))),
                                 XXPRIME_1)}})

\* hash() of a tuple whose items hash to the words in lanes.
tuplehash(lanes0) ==
    The({The({IF acc = U64Max THEN MinusOneReplacement ELSE acc :
                 acc \in {U64Add(TupleLanes(lanes, 1, XXPRIME_5),
                                 MangledLength(Len(lanes)))}}) :
            lanes \in {lanes0}})

\* Residue.__hash__: hash((self.a, self.m))
ResHash(x) == tuplehash(<<U64(x.a), U64(x.m)>>)

\* AffinePoint.__hash__ / JacobianPoint.__hash__ / Infinity.__hash__; the
\* hash of the string "Infinity" is fixed when the interpreter starts.
PyHash(P, str_hash) ==
    IF P.tag = "A" THEN tuplehash(<<ResHash(P.x), ResHash(P.y)>>)
    ELSE IF P.tag = "J" THEN tuplehash(<<ResHash(P.x), ResHash(P.y), ResHash(P.z)>>)
    ELSE str_hash

(***************************************************************************)
(* Points: one comparison or one hash of points over a common modulus.     *)
(***************************************************************************)
PointModuli == {3, 5}

\* Every AffinePoint and every JacobianPoint with Z # 0 over m, and Infinity.
PointsOver ==
    [m \in PointModuli |->
        {Infinity} \cup AffineOver(m) \cup JacobianOver(m, 1..(m - 1))]

PointInit ==
    /\ ctx \in [m : PointModuli, str_hash : {U64(h) : h \in 0..1}]
    /\ op = "init"
    /\ args = <<>>
    /\ out = NoneValue

Eq ==
    /\ op = "init"
    /\ \E P \in PointsOver[ctx.m], Q \in PointsOver[ctx.m] :
          /\ op' = "eq"
          /\ args' = [P |-> P, Q |-> Q]
          /\ out' = PyEq(P, Q)
    /\ UNCHANGED ctx

Hash ==
    /\ op = "init"
    /\ \E P \in PointsOver[ctx.m] :
          /\ op' = "hash"
          /\ args' = [P |-> P]
          /\ out' = PyHash(P, ctx.str_hash)
    /\ UNCHANGED ctx

PointNext == Eq \/ Hash

PointSpec == PointInit /\ [][PointNext]_vars

\* C9: P == Q returns True exactly when P and Q are the same curve point
\* (the same affine projection, or both Infinity), whatever the
\* representations and the operand order.
EqIsRepresentationIndependent ==
    (op = "eq") => (out = PyBool(SamePoint(args.P, args.Q)))

\* C10: any two points that compare equal have equal hashes.
EqualPointsHashEqual ==
    (op = "hash") =>
        \A Q \in PointsOver[ctx.m] :
            (PyEq(args.P, Q) = "True") => (PyHash(Q, ctx.str_hash) = out)

(***************************************************************************)
(* curve.py: the way Python binds the arguments of a call of               *)
(* scalar_mult(self, P, n, to_affine=False).                               *)
(***************************************************************************)
\* positional: the arguments given after n; keywords: the keyword arguments
\* (a record, <<>> when there are none).  An int is true when non-zero.
BindToAffine(positional, keywords) ==
    IF Len(positional) > 1
    THEN Err("TypeError", "scalar_mult() takes from 3 to 4 positional arguments")
    ELSE IF Len(positional) = 1 /\ "to_affine" \in DOMAIN keywords
    THEN Err("TypeError", "scalar_mult() got multiple values for argument 'to_affine'")
    ELSE IF Len(positional) = 1 THEN Ok(positional[1] # 0)
    ELSE IF "to_affine" \in DOMAIN keywords THEN Ok(keywords.to_affine)
    ELSE Ok(FALSE)

CallScalarMult(curve, P, n, positional, keywords) ==
    IF IsErr(BindToAffine(positional, keywords))
    THEN BindToAffine(positional, keywords)
    ELSE scalar_mult(curve, P, n, BindToAffine(positional, keywords).val)

(***************************************************************************)
(* sign.py: CurveSign.  The parameter catalog (curve_params.py) is a table *)
(* of named curves {type, a, b, p, n, g_x, g_y}; the model's catalog holds *)
(* one small curve of prime order n = 7 over GF(11) with a = -3.           *)
(***************************************************************************)
get_curve_params(curve_name) ==
    [type |-> "shortw", a |-> 8, b |-> 10, p |-> 11, n |-> 7, g_x |-> 8, g_y |-> 5]

\* CurveSign.__init__ for a catalog entry of type "shortw".
CurveSign(curve_name) ==
    LET params == get_curve_params(curve_name)
        curve  == ShortWCurve(params.a, params.b, params.p)
    IN  [params |-> params, curve |-> curve,
         base_point |-> create_point(curve, params.g_x, params.g_y)]

KeyPair(pub_key, priv_key) == [tag |-> "KeyPair", pub_key |-> pub_key, priv_key |-> priv_key]

Signature(r, s) == [tag |-> "Signature", r |-> r, s |-> s]

\* CurveSign.generate_key_pair with d the number SystemRandom draws.
KeyPairOf(Q, d) == IF IsErr(Q) THEN Q ELSE KeyPair(to_affine(Q), d)

generate_key_pair(self, d) ==
    KeyPairOf(CallScalarMult(self.curve, self.base_point, d, <<4>>,
                             [to_affine |-> TRUE]), d)

Unsubscriptable == Err("TypeError", "'Infinity' object is not subscriptable")

IntTimesResidue == Err("TypeError", "unsupported operand type(s) for *: 'int' and 'Residue'")

ResidueModInt == Err("TypeError", "unsupported operand type(s) for %: 'Residue' and 'int'")

Retry == [tag |-> "Retry"]

\* CurveSign.sign with h the digest of the message and k the nonce drawn in
\* the first loop: one pass through the loop body and what follows it.
\* Retry stands for the loop drawing another nonce (r = 0).
SignWith(P, h, priv_key, k) ==
    IF IsErr(P) THEN P
    ELSE IF P.tag = "Inf" THEN Unsubscriptable
    ELSE IF P.x.a = 0 THEN Retry
    ELSE IntTimesResidue

sign(self, h, priv_key, k) ==
    SignWith(CallScalarMult(self.curve, self.base_point, k, <<4>>,
                            [to_affine |-> TRUE]), h, priv_key, k)

\* Lines 87-89 of CurveSign.verify: P is the outcome of curve.add.
VerifyResult(P) ==
    IF IsErr(P) THEN P
    ELSE IF P.tag = "Inf" THEN Ok(FALSE)
    ELSE IF IsErr(to_affine(P)) THEN to_affine(P)
    ELSE ResidueModInt

\* Lines 83-86 of CurveSign.verify: A = u.G and B = v.Q are the outcomes of
\* the two scalar_mult calls, evaluated in that order before curve.add.
VerifyPoint(self, A, B) ==
    IF IsErr(A) THEN A
    ELSE IF IsErr(B) THEN B
    ELSE VerifyResult(add(self.curve, A, B, FALSE))

\* Lines 81-89 of CurveSign.verify: c is the outcome of modular_inverse.
VerifyWith(self, h, r, c, pub_key) ==
    IF IsErr(c) THEN c
    ELSE VerifyPoint(self,
            CallScalarMult(self.curve, self.base_point,
                           (h * c.val) % self.params.n, <<4>>, <<>>),
            CallScalarMult(self.curve, pub_key,
                           (r * c.val) % self.params.n, <<4>>, <<>>))

\* CurveSign.verify with h the digest of the message and r, s ints.
verify(self, h, r, s, pub_key) ==
    IF r <= 1 \/ r > self.params.n \/ s <= 1 \/ s > self.params.n THEN Ok(FALSE)
    ELSE VerifyWith(self, h, r, modular_inverse(s, self.params.n), pub_key)

(***************************************************************************)
(* Signer: one call of generate_key_pair, sign or verify.                  *)
(***************************************************************************)
CurveNames == {"T-7"}

Digests == 0..MaxDigest

PrivateKeys(self) == 1..(self.params.n - 1)

\* The public keys handed to verify: the on-curve points of the signer's
\* curve in affine or Jacobian form, and Infinity.
PublicKeys(self) ==
    {Infinity} \cup
    {P \in AffineOver(self.curve.p)
           \cup JacobianOver(self.curve.p, 1..Min(MaxZ, self.curve.p - 1)) :
        contains(self.curve, P) = "True"}

SignInit ==
    /\ ctx \in {CurveSign(name) : name \in CurveNames}
    /\ op = "init"
    /\ args = <<>>
    /\ out = NoneValue

GenerateKeyPair ==
    /\ op = "init"
    /\ \E d \in PrivateKeys(ctx) :
          /\ op' = "generate_key_pair"
          /\ args' = [d |-> d]
          /\ out' = generate_key_pair(ctx, d)
    /\ UNCHANGED ctx

Sign ==
    /\ op = "init"
    /\ \E h \in Digests, d \in PrivateKeys(ctx), k \in 1..(ctx.params.n - 1) :
          /\ op' = "sign"
          /\ args' = [h |-> h, priv_key |-> d, k |-> k]
          /\ out' = sign(ctx, h, d, k)
    /\ UNCHANGED ctx

Verify ==
    /\ op = "init"
    /\ \E h \in Digests, r \in 0..(ctx.params.n + 1), s \in 0..(ctx.params.n + 1),
          Q \in PublicKeys(ctx) :
          /\ op' = "verify"
          /\ args' = [h |-> h, r |-> r, s |-> s, pub_key |-> Q]
          /\ out' = verify(ctx, h, r, s, Q)
    /\ UNCHANGED ctx

SignNext == GenerateKeyPair \/ Sign \/ Verify

SignSpec == SignInit /\ [][SignNext]_vars

\* verify(m, signature, key_pair.pub_key) where signature and key_pair are
\* the outcomes of sign and generate_key_pair: an exception raised by
\* either is the outcome of the whole expression.
VerifyOf(self, h, signature, key_pair) ==
    IF IsErr(key_pair) THEN key_pair
    ELSE IF IsErr(signature) THEN signature
    ELSE verify(self, h, signature.r, signature.s, key_pair.pub_key)

\* C1: for every message, every key pair (d, Q) of generate_key_pair and
\* every nonce sign draws, verify(m, sign(m, d), Q) returns True.
SignatureRoundTrip ==
    (op = "sign" /\ out # Retry) =>
        VerifyOf(ctx, args.h, out, generate_key_pair(ctx, args.priv_key)) = Ok(TRUE)

\* C2: for a signature made with the key pair (d, Q), verify(m, sig, Q')
\* returns False for every other generated public key Q' = d'.G.
WrongKeyRejected ==
    (op = "sign" /\ out # Retry) =>
        \A d2 \in PrivateKeys(ctx) \ {args.priv_key} :
            VerifyOf(ctx, args.h, out, generate_key_pair(ctx, d2)) = Ok(FALSE)

(***************************************************************************)
(* maths.py: the Residue constructor and operators as they are called,     *)
(* with any int as modulus and residues of different moduli.               *)
(***************************************************************************)
\* Python's a % m for m # 0: the result has the sign of m.
PyMod(a, m) == IF m > 0 THEN a % m ELSE -((-a) % (-m))

ZeroDivisionError == Err("ZeroDivisionError", "integer division or modulo by zero")

\* Residue.__init__: self.a = a if (a < m and a >= 0) else a % m
ResidueNew(a, m) ==
    IF a < m /\ a >= 0 THEN [a |-> a, m |-> m]
    ELSE IF m = 0 THEN ZeroDivisionError
    ELSE [a |-> PyMod(a, m), m |-> m]

ModulusMismatch == Err("ValueError", "Residues must share the same modulus.")

\* Residue._compare_moduli followed by the operator's own computation.
_compare_moduli(self, other, result) ==
    IF self.m # other.m THEN ModulusMismatch ELSE result

\* The residues the operators are applied to: built with a modulus m > 0.
Residues ==
    {ResidueNew(a, m) : a \in 0..MaxValue, m \in 1..MaxModulus}

ResidueInit ==
    /\ ctx = NoneValue
    /\ op = "init"
    /\ args = <<>>
    /\ out = NoneValue

NewResidue ==
    /\ op = "init"
    /\ \E a \in (-MaxValue)..MaxValue, m \in (-MaxModulus)..MaxModulus :
          /\ op' = "Residue"
          /\ args' = [a |-> a, m |-> m]
          /\ out' = ResidueNew(a, m)
    /\ UNCHANGED ctx

ResidueAdd ==
    /\ op = "init"
    /\ \E x \in Residues, y \in Residues :
          /\ op' = "__add__"
          /\ args' = [self |-> x, other |-> y]
          /\ out' = _compare_moduli(x, y, ResAdd(x, y))
    /\ UNCHANGED ctx

ResidueSub ==
    /\ op = "init"
    /\ \E x \in Residues, y \in Residues :
          /\ op' = "__sub__"
          /\ args' = [self |-> x, other |-> y]
          /\ out' = _compare_moduli(x, y, ResSub(x, y))
    /\ UNCHANGED ctx

ResidueMul ==
    /\ op = "init"
    /\ \E x \in Residues, y \in Residues :
          /\ op' = "__mul__"
          /\ args' = [self |-> x, other |-> y]
          /\ out' = _compare_moduli(x, y, ResMul(x, y))
    /\ UNCHANGED ctx

ResidueDiv ==
    /\ op = "init"
    /\ \E x \in Residues, y \in Residues :
          /\ op' = "__truediv__"
          /\ args' = [self |-> x, other |-> y]
          /\ out' = _compare_moduli(x, y, ResDiv(x, y))
    /\ UNCHANGED ctx

ResiduePow ==
    /\ op = "init"
    /\ \E x \in Residues, n \in 0..MaxPower :
          /\ op' = "__pow__"
          /\ args' = [self |-> x, n |-> n]
          /\ out' = ResPow(x, n)
    /\ UNCHANGED ctx

ResidueNegate ==
    /\ op = "init"
    /\ \E x \in Residues :
          /\ op' = "__neg__"
          /\ args' = [self |-> x]
          /\ out' = ResNeg(x)
    /\ UNCHANGED ctx

ResidueNext ==
    \/ NewResidue
    \/ ResidueAdd
    \/ ResidueSub
    \/ ResidueMul
    \/ ResidueDiv
    \/ ResiduePow
    \/ ResidueNegate

ResidueSpec == ResidueInit /\ [][ResidueNext]_vars

\* C11: Residue(a, m) fails for every m <= 0 and otherwise stores a mod m;
\* every Residue built directly or returned by an operator has m > 0 and
\* 0 <= a < m.
ResidueCanonical ==
    /\ (op = "Residue" /\ args.m <= 0) => IsErr(out)
    /\ (op = "Residue" /\ args.m > 0) => (out = [a |-> args.a % args.m, m |-> args.m])
    /\ (op # "init" /\ ~IsErr(out)) => (out.m > 0 /\ 0 <= out.a /\ out.a < out.m)

\* Every Residue built with m > 0 or returned by an operator applied to
\* such residues has m > 0 and 0 <= a < m.
ResidueCanonicalPositive ==
    /\ (op = "Residue" /\ args.m > 0) => (out = [a |-> args.a % args.m, m |-> args.m])
    /\ (op # "init" /\ ~IsErr(out) /\ (op = "Residue" => args.m > 0)) =>
           (out.m > 0 /\ 0 <= out.a /\ out.a < out.m)

\* The greatest common divisor of a >= 0 and m > 0.
GCD(a, m) ==
    CHOOSE d \in 1..m :
        /\ a % d = 0
        /\ m % d = 0
        /\ \A e \in 1..m : (a % e = 0 /\ m % e = 0) => e <= d

NoInverse == Err("ValueError", "no multiplicative inverse")

\* C12: for x, y of the same modulus, x / y raises the no-inverse error
\* exactly when gcd(y, m) # 1, and otherwise returns q with q * y == x.
DivisionCorrect ==
    (op = "__truediv__" /\ args.self.m = args.other.m) =>
        IF GCD(args.other.a, args.other.m) # 1 THEN out = NoInverse
        ELSE /\ ~IsErr(out)
             /\ out.m = args.self.m
             /\ 0 <= out.a /\ out.a < out.m
             /\ ResMul(out, args.other) = args.self

\* A division by a unit other than 1 of a composite modulus.
DivisionCorrectWitness ==
    /\ op = "__truediv__"
    /\ args.self.m = 6
    /\ args.other = [a |-> 5, m |-> 6]
    /\ args.self.a = 2
    /\ out = [a |-> 4, m |-> 6]

(***************************************************************************)
(* maths.py: miller_rabin and FiniteField.__init__, and Curve.__init__     *)
(* which builds the coefficients before the field.  The bases are drawn    *)
(* by random.randint(2, n - 2), one per trial: each trial is a step.       *)
(***************************************************************************)
\* miller_rabin's default number of trials k.
MillerRabinTrials == 5

\* pow(a, e, n) for e >= 0 and n > 0.
RECURSIVE PowMod(_, _, _)
PowMod(a, e, n) == IF e = 0 THEN 1 % n ELSE (a * PowMod(a, e - 1, n)) % n

\* The loop "while d % 2 == 0: s += 1; d //= 2" from s = 0, d = n - 1.
RECURSIVE Decompose(_, _)
Decompose(s, d) == IF d % 2 = 0 THEN Decompose(s + 1, d \div 2) ELSE <<s, d>>

\* One trial with the base a: FALSE when the trial returns False (a shows
\* n to be composite), TRUE when the loop goes on.
TrialPasses(a, n) ==
    LET sd == Decompose(0, n - 1)
    IN  \/ PowMod(a, sd[2], n) = 1
        \/ \E i \in 0..(sd[1] - 1) : PowMod(a, (2 ^ i) * sd[2], n) = n - 1

\* The two early returns of miller_rabin: "True", "False", or "loop".
MillerRabinEntry(n) ==
    IF n \in {2, 3} THEN "True"
    ELSE IF n <= 1 \/ n % 2 = 0 THEN "False"
    ELSE "loop"

InvalidField == Err("ValueError", "Invalid field parameter.")

FiniteField(p) == [tag |-> "FiniteField", p |-> p]

\* FiniteField.__init__ given the value miller_rabin(p) returned.
FiniteFieldNew(p, prime) ==
    IF ~(prime /\ p # 2) THEN InvalidField ELSE FiniteField(p)

SingularCurve == Err("ValueError", "Discriminant must be non-zero.")

InvalidCurve == Err("ValueError", "Invalid curve parameters.")

MontgomeryCurve(a, b, p) == [a |-> Residue(a, p), b |-> Residue(b, p), p |-> p]

\* MontgomeryCurve._validate_params
ValidMontgomery(a, b, p) ==
    ~(ResEq(ResPow(Residue(a, p), 2), Residue(4, p)) \/ ResEq(Residue(b, p), Residue(0, p)))

\* Curve.__init__ before FiniteField(p): the two coefficients are built.
CoefficientsError(call) ==
    IF call.type = "FiniteField" THEN NoneValue
    ELSE IF IsErr(ResidueNew(call.a, call.p)) THEN ResidueNew(call.a, call.p)
    ELSE IF IsErr(ResidueNew(call.b, call.p)) THEN ResidueNew(call.b, call.p)
    ELSE NoneValue

\* What the constructor returns or raises once miller_rabin(p) returned.
Constructed(call, prime) ==
    IF IsErr(FiniteFieldNew(call.p, prime)) THEN FiniteFieldNew(call.p, prime)
    ELSE IF call.type = "FiniteField" THEN FiniteField(call.p)
    ELSE IF call.type = "ShortWCurve"
    THEN (IF ValidShortW(call.a, call.b, call.p)
          THEN ShortWCurve(call.a, call.b, call.p) ELSE SingularCurve)
    ELSE (IF ValidMontgomery(call.a, call.b, call.p)
          THEN MontgomeryCurve(call.a, call.b, call.p) ELSE InvalidCurve)

\* The constructor calls: FiniteField(p), ShortWCurve(a, b, p) and
\* MontgomeryCurve(a, b, p).
Constructors ==
    [type : {"FiniteField"}, a : {0}, b : {0}, p : (-MaxNegativeP)..MaxP]
    \cup [type : {"ShortWCurve", "MontgomeryCurve"}, a : {0, 2, 3}, b : {0, 8},
          p : (-MaxNegativeP)..MaxP]

FieldInit ==
    /\ ctx \in Constructors
    /\ op = "init"
    /\ args = <<>>
    /\ out = NoneValue

\* The constructor up to the first trial of miller_rabin.
Construct ==
    /\ op = "init"
    /\ IF IsErr(CoefficientsError(ctx))
       THEN /\ op' = "done"
            /\ out' = CoefficientsError(ctx)
            /\ args' = [trial |-> 0, a |-> 0]
       ELSE IF MillerRabinEntry(ctx.p) # "loop"
       THEN /\ op' = "done"
            /\ out' = Constructed(ctx, MillerRabinEntry(ctx.p) = "True")
            /\ args' = [trial |-> 0, a |-> 0]
       ELSE /\ op' = "miller_rabin"
            /\ out' = NoneValue
            /\ args' = [trial |-> 0, a |-> 0]
    /\ UNCHANGED ctx

\* One round of "for _ in range(k)": a base is drawn and tried.
Trial ==
    /\ op = "miller_rabin"
    /\ \E a \in 2..(ctx.p - 2) :
          /\ args' = [trial |-> args.trial + 1, a |-> a]
          /\ IF ~TrialPasses(a, ctx.p)
             THEN op' = "done" /\ out' = Constructed(ctx, FALSE)
             ELSE IF args.trial + 1 = MillerRabinTrials
             THEN op' = "done" /\ out' = Constructed(ctx, TRUE)
             ELSE op' = "miller_rabin" /\ out' = out
    /\ UNCHANGED ctx

FieldNext == Construct \/ Trial

FieldSpec == FieldInit /\ [][FieldNext]_vars

IsOddPrime(p) == p >= 3 /\ \A e \in 2..(p - 1) : p % e # 0

\* C13: FiniteField(p) and every curve constructor raise the invalid-field
\* error for every p that is not an odd prime, and FiniteField(p) succeeds
\* for every odd prime p, whatever bases the trials draw.
FieldValidatesPrime ==
    (op = "done") =>
        IF IsOddPrime(ctx.p)
        THEN out # InvalidField /\ (ctx.type = "FiniteField" => out = FiniteField(ctx.p))
        ELSE out = InvalidField

\* FiniteField(p) alone: odd primes are accepted; anything else is
\* rejected unless it is an odd composite and every base drawn was a
\* strong liar for it.
FieldValidatesUpToLiars ==
    (op = "done" /\ ctx.type = "FiniteField") =>
        IF IsOddPrime(ctx.p) THEN out = FiniteField(ctx.p)
        ELSE \/ out = InvalidField
             \/ /\ args.trial = MillerRabinTrials
                /\ TrialPasses(args.a, ctx.p)
                /\ ctx.p > 3 /\ ctx.p % 2 = 1

(***************************************************************************)
(* curve.py: MontgomeryCurve, b*y^2 = x^3 + a*x^2 + x.                     *)
(***************************************************************************)
\* MontgomeryCurve.__contains__: "True", "False" or the exception raised.
MontgomeryOnCurve(curve, Q) ==
    IF IsErr(Q) THEN Q.exc
    ELSE PyBool(ResEq(ResMul(curve.b, ResPow(Q.y, 2)),
                      ResAdd(ResAdd(ResPow(Q.x, 3), ResMul(curve.a, ResPow(Q.x, 2))),
                             Q.x)))

montgomery_contains(curve, P) ==
    IF P.tag = "Inf" THEN "True" ELSE MontgomeryOnCurve(curve, to_affine(P))

BothOnCurve == Err("ValueError", "Both points must be on the curve.")

\* Lines 362-368 of MontgomeryCurve.add: the slope l, from P[0], P[1],
\* Q[0], Q[1]; same is the outcome of P == Q.
Slope(curve, P, Q, same) ==
    IF same \notin {"True", "False"} THEN Err(same, "")
    ELSE IF same = "True"
    THEN ResDiv(ResAdd(ResAdd(ResMul(Residue(3, curve.p), ResPow(P.x, 2)),
                              ResMul(ResMul(Residue(2, curve.p), curve.a), P.x)),
                       Residue(1, curve.p)),
                ResMul(ResMul(Residue(2, curve.p), curve.b), P.y))
    ELSE ResDiv(ResSub(Q.y, P.y), ResSub(Q.x, P.x))

\* Lines 370-374 of MontgomeryCurve.add.
Chord(curve, P, Q, to_aff, l) ==
    IF IsErr(l) THEN l
    ELSE LET x == ResSub(ResSub(ResSub(ResMul(curve.b, ResPow(l, 2)), curve.a), P.x), Q.x)
             y == ResSub(ResMul(l, ResSub(P.x, x)), P.y)
         IN  IF to_aff THEN AffinePoint(x, y) ELSE to_jacobian(AffinePoint(x, y))

\* Lines 358-374 of MontgomeryCurve.add: neg is the outcome of
\* P.negate() == Q.
MontgomeryAddFinite(curve, P, Q, to_aff, neg) ==
    IF neg \notin {"True", "False"} THEN Err(neg, "")
    ELSE IF neg = "True" THEN Infinity
    ELSE Chord(curve, P, Q, to_aff, Slope(curve, P, Q, PyEq(P, Q)))

\* Lines 352-353: "P in self and Q in self", then the branches; inP and inQ
\* are the outcomes of the two membership tests.
MontgomeryAddChecked(curve, P, Q, to_aff, inP, inQ) ==
    IF inP \notin {"True", "False"} THEN Err(inP, "")
    ELSE IF inP = "False" THEN BothOnCurve
    ELSE IF inQ \notin {"True", "False"} THEN Err(inQ, "")
    ELSE IF inQ = "False" THEN BothOnCurve
    ELSE IF P.tag = "Inf" THEN Q
    ELSE IF Q.tag = "Inf" THEN P
    ELSE MontgomeryAddFinite(curve, P, Q, to_aff, PyEq(negate(P), Q))

\* MontgomeryCurve.add
montgomery_add(curve, P, Q, to_aff) ==
    MontgomeryAddChecked(curve, P, Q, to_aff,
                         montgomery_contains(curve, P), montgomery_contains(curve, Q))

\* <<a, b, p>>
MontgomeryParams == {<<3, 1, 7>>, <<1, 2, 5>>, <<5, 3, 11>>}

MontgomeryCurves ==
    {MontgomeryCurve(t[1], t[2], t[3]) :
        t \in {u \in MontgomeryParams : ValidMontgomery(u[1], u[2], u[3])}}

\* Infinity and the points of the curve in either representation.
MontgomeryElementsOf ==
    [c \in MontgomeryCurves |->
        {Infinity} \cup
        {P \in AffineOver(c.p) \cup JacobianOver(c.p, 1..Min(MaxZ, c.p - 1)) :
            montgomery_contains(c, P) = "True"}]

\* Points that are not on the curve, in either representation.
MontgomeryOffCurveOf ==
    [c \in MontgomeryCurves |->
        {P \in AffineOver(c.p) \cup JacobianOver(c.p, 1..Min(MaxZ, c.p - 1)) :
            montgomery_contains(c, P) = "False" /\ P.x.a <= 1 /\ P.y.a <= 1}]

MontgomeryInit ==
    /\ ctx \in MontgomeryCurves
    /\ op = "init"
    /\ args = <<>>
    /\ out = NoneValue

MontgomeryAdd ==
    /\ op = "init"
    /\ \E P \in MontgomeryElementsOf[ctx] \cup MontgomeryOffCurveOf[ctx],
          Q \in MontgomeryElementsOf[ctx] \cup MontgomeryOffCurveOf[ctx],
          to_aff \in BOOLEAN :
          /\ op' = "add"
          /\ args' = [P |-> P, Q |-> Q, to_affine |-> to_aff]
          /\ out' = montgomery_add(ctx, P, Q, to_aff)
    /\ UNCHANGED ctx

MontgomeryNext == MontgomeryAdd

MontgomerySpec == MontgomeryInit /\ [][MontgomeryNext]_vars

\* C19: Montgomery add raises the point-not-on-curve error when an operand
\* is off the curve; for on-curve operands in either representation it
\* raises nothing and returns a point of the curve, the sum given by the
\* chord and tangent formulas applied to the affine projections.
MontgomeryAddCorrect ==
    (op = "add") =>
        IF \/ args.P \in MontgomeryOffCurveOf[ctx]
           \/ args.Q \in MontgomeryOffCurveOf[ctx]
        THEN out = BothOnCurve
        ELSE /\ ~IsErr(out)
             /\ montgomery_contains(ctx, out) = "True"
             /\ SamePoint(out, montgomery_add(ctx, to_affine(args.P),
                                              to_affine(args.Q), TRUE))

\* The same for operands that are AffinePoints, JacobianPoints with Z = 1
\* or Infinity.
MontgomeryAddCorrectAffine ==
    (op = "add" /\ (args.P.tag = "J" => args.P.z.a = 1)
                /\ (args.Q.tag = "J" => args.Q.z.a = 1)) =>
        IF \/ args.P \in MontgomeryOffCurveOf[ctx]
           \/ args.Q \in MontgomeryOffCurveOf[ctx]
        THEN out = BothOnCurve
        ELSE /\ ~IsErr(out)
             /\ montgomery_contains(ctx, out) = "True"
             /\ SamePoint(out, montgomery_add(ctx, to_affine(args.P),
                                              to_affine(args.Q), TRUE))

(***************************************************************************)
(* The signature ECDSA defines for the digest h, the private key d and the *)
(* nonce k: r = x1 mod n with (x1, y1) = k.G, s = (h + d*r) / k mod n.     *)
(***************************************************************************)
NoncePoint(self, k) == to_affine(scalar_mult(self.curve, self.base_point, k, FALSE))

EcdsaR(self, k) == NoncePoint(self, k).x.a % self.params.n

EcdsaS(self, h, d, k) ==
    ((h + d * EcdsaR(self, k)) * modular_inverse(k, self.params.n).val) % self.params.n

\* The nonce k is one the algorithm accepts: r # 0 and s # 0.
NonceAccepted(self, h, d, k) ==
    /\ NoncePoint(self, k).tag = "A"
    /\ EcdsaR(self, k) # 0
    /\ EcdsaS(self, h, d, k) # 0

\* C17: sign draws a fresh nonce whenever r or s is 0, and so returns a
\* signature once the nonce drawn gives r # 0 and s # 0.
SignReturnsOnAcceptedNonce ==
    (op = "sign" /\ NonceAccepted(ctx, args.h, args.priv_key, args.k)) =>
        out.tag = "Signature"

\* C18: the r that sign returns is x1 mod n for the accepted nonce and s
\* is reduced mod n: 1 <= r <= n - 1 and 1 <= s <= n - 1.
SignatureInRange ==
    (op = "sign" /\ out # Retry) =>
        /\ out.tag = "Signature"
        /\ out.r = EcdsaR(ctx, args.k)
        /\ out.r \in 1..(ctx.params.n - 1)
        /\ out.s \in 1..(ctx.params.n - 1)

\* The range check of verify (line 79) lets the pair (r, s) through.
PassesRangeCheck(self, r, s) ==
    ~(r <= 1 \/ r > self.params.n \/ s <= 1 \/ s > self.params.n)

\* C21: verify returns a boolean and raises nothing, for every digest,
\* every pair of ints (r, s) and every on-curve public key; every s that
\* passes the range check is invertible modulo n.
VerifyReturnsBoolean ==
    (op = "verify") =>
        /\ out \in {Ok(TRUE), Ok(FALSE)}
        /\ PassesRangeCheck(ctx, args.r, args.s) => GCD(args.s, ctx.params.n) = 1

\* verify returns False, and raises nothing, for every pair (r, s) that the
\* range check turns away.
VerifyRejectsOutOfRange ==
    (op = "verify" /\ ~PassesRangeCheck(ctx, args.r, args.s)) => out = Ok(FALSE)

====
